---- MODULE Spec2Model ----
(***************************************************************************)
(* jasmine-as-promised: the runs() interceptor installed on                *)
(* jasmine.Spec.prototype, the once-only installation guard, and the host  *)
(* runner (block queue, runs blocks, waitsFor polling) it delegates to.    *)
(*                                                                         *)
(* One spec (test) of host "A" is modelled: its body registers steps       *)
(* through Spec.prototype.runs while pc = "register", then the host runner *)
(* executes the queued blocks in order while pc = "run".                   *)
(*                                                                         *)
(* JavaScript values are records [typeof, isNull, thenType] where thenType *)
(* is the typeof of the value's `then` property.  Optional arguments are   *)
(* sequences of length at most one (<<>> is an omitted argument).          *)
(*                                                                         *)
(* Settlement of a deferred computation is the event at which it notifies  *)
(* the callbacks registered through then(); a deferred that was settled    *)
(* before it was returned is the case where Settle is taken right after    *)
(* the adapter block, before the first poll check.                         *)
(*                                                                         *)
(* Spec follows the steps of one spec on a host that is plugged in or not; *)
(* InstallSpec follows install calls with any handles; FairSpec is Spec    *)
(* with a host runner that keeps running.                                  *)
(***************************************************************************)
EXTENDS Naturals, Sequences, FiniteSets, TLC

\* ---------------------------------------------------------------- bounds
MaxInstalls == 2          \* install calls made in one run
MaxSteps == 2             \* runs() calls made by the spec body
MaxTimeout == 1           \* explicit timeOut arguments are 1..MaxTimeout ticks
DefaultTimeoutTicks == 2  \* the host's default waitsFor timeout, in poll ticks
MaxFairSteps == 1         \* runs() calls made by the spec body under FairSpec

\* ---------------------------------------------------------------- inputs
Hosts == {"A", "B"}
Handles == {"undefined", "null", "noSpec", "A", "B"}
Steps == 1..MaxSteps
Values == {"5"}
Reasons == {"boom"}
TimeOuts == {<<>>} \cup {<<t>> : t \in 1..MaxTimeout}
ExpectFns == {"undefined", "function"}

JsValue(t, n, th) == [typeof |-> t, isNull |-> n, thenType |-> th]
Undefined == JsValue("undefined", FALSE, "undefined")
Null == JsValue("object", TRUE, "undefined")
Number42 == JsValue("number", FALSE, "undefined")
PlainObject == JsValue("object", FALSE, "undefined")
ObjectStringThen == JsValue("object", FALSE, "string")
Thenable == JsValue("object", FALSE, "function")
FunctionThenable == JsValue("function", FALSE, "function")
StringValue == JsValue("string", FALSE, "undefined")
AllValues == {Undefined, Null, Number42, StringValue, PlainObject,
              ObjectStringThen, Thenable, FunctionThenable}
\* the values the step bodies of the modelled spec return
ReturnValues == {Undefined, Null, ObjectStringThen, Thenable, FunctionThenable}

\* A deferred computation in the sense of the glossary: an object exposing a
\* callable then.
DeferredComputation(v) ==
    v.typeof = "object" /\ ~v.isNull /\ v.thenType = "function"

VARIABLES
    duckPunchedAlready,   \* the module-level flag
    protoRuns,            \* per host: number of interceptors wrapped around the original Spec.prototype.runs
    patchCount,           \* number of assignments to Spec.prototype.runs performed
    installLog,           \* the install calls made so far: handle and outcome
    pc,                   \* "register" | "run" | "done"
    calls,                \* per registered runs() call: its arguments and the primitive that served it
    result,               \* per invocation: the closure variable `result` (the completion latch)
    queue,                \* the spec's block queue
    idx,                  \* index of the block being executed
    waited,               \* ticks the current waitsFor block has spent waiting
    aborted,              \* the queue was aborted by a timed-out waitsFor block
    bodyRet,              \* per invocation: <<v>> once runFn returned v, <<>> before (or when it threw)
    bodyRuns,             \* per invocation: how many times runFn was called
    registered,           \* per invocation: then(onReleaseWait, onReleaseWait) was called
    deferred,             \* per invocation: state and settled value of the returned deferred
    pollOutcome,          \* per invocation: "none" | "released" | "timeout"
    followRan,            \* per invocation: expectFn was executed
    followArgs,           \* per invocation: the argument list expectFn was called with
    failures,             \* failures reported to the spec
    lastCheck,            \* the latest evaluation of a poll condition closure, <<>> before the first
    thrown,               \* the exceptions thrown so far by runFn / expectFn bodies
    activation            \* the latest activation made without a handle, <<>> before the first

vars == <<duckPunchedAlready, protoRuns, patchCount, installLog, pc, calls,
          result, queue, idx, waited, aborted, bodyRet, bodyRuns, registered,
          deferred, pollOutcome, followRan, followArgs, failures, lastCheck,
          thrown, activation>>

installVars == <<duckPunchedAlready, protoRuns, patchCount, installLog,
                 activation>>
stepVars == <<result, bodyRet, bodyRuns, registered, deferred, pollOutcome,
              followRan, followArgs, failures, lastCheck, thrown>>

NoDeferred == [state |-> "none", value |-> ""]

\* The state right after the module was loaded and before any install call
Fresh ==
    /\ duckPunchedAlready = FALSE
    /\ protoRuns = [h \in Hosts |-> 0]
    /\ patchCount = 0
    /\ installLog = <<>>
    /\ activation = <<>>

\* The state after jasmineAsPromised(jasmine) was applied to host "A", as
\* the module does by itself when loaded through a <script> tag
PluggedIn ==
    /\ duckPunchedAlready = TRUE
    /\ protoRuns = [h \in Hosts |-> IF h = "A" THEN 1 ELSE 0]
    /\ patchCount = 1
    /\ installLog = <<[handle |-> "A", outcome |-> "patched"]>>
    /\ activation = <<>>

NoSteps ==
    /\ pc = "register"
    /\ calls = <<>>
    /\ result = [i \in Steps |-> FALSE]
    /\ queue = <<>>
    /\ idx = 1
    /\ waited = 0
    /\ aborted = FALSE
    /\ bodyRet = [i \in Steps |-> <<>>]
    /\ bodyRuns = [i \in Steps |-> 0]
    /\ registered = [i \in Steps |-> FALSE]
    /\ deferred = [i \in Steps |-> NoDeferred]
    /\ pollOutcome = [i \in Steps |-> "none"]
    /\ followRan = [i \in Steps |-> FALSE]
    /\ followArgs = [i \in Steps |-> <<>>]
    /\ failures = {}
    /\ lastCheck = <<>>
    /\ thrown = {}

\* A spec starts on a host that was plugged in at load time, or on one that
\* was not (AMD registration, or a page without the plugin)
Init == (Fresh \/ PluggedIn) /\ NoSteps

\* Installation is followed from the freshly loaded module
InstallInit == Fresh /\ NoSteps

\* ------------------------------------------------------------ the module

isDefined(value) == value # "undefined"

\* (mutant) the test that then is a function is missing
isPromise_noThenTest(x) ==
    x.typeof = "object" /\ ~x.isNull

\* (mutant) the typeof test asks for a function instead of an object
isPromise_typeofFunction(x) ==
    x.typeof = "function" /\ ~x.isNull /\ x.thenType = "function"

isPromise(x) ==
    x.typeof = "object" /\ ~x.isNull /\ x.thenType = "function"

\* reading jasmine.Spec.prototype succeeds only on a handle that has Spec
HasSpecPrototype(h) == h \in Hosts

\* (mutant) the duckPunchedAlready test is missing
InstallReturnsEarly_noFlagTest(flag, h) == ~isDefined(h)

\* (mutant) the isDefined test is missing
InstallReturnsEarly_noDefinedTest(flag, h) == flag

\* the two early returns of jasmineAsPromised
InstallReturnsEarly(flag, h) == flag \/ ~isDefined(h)

\* The body of jasmineAsPromised(jasmine) applied to handle h
InstallBody(h) ==
    IF InstallReturnsEarly(duckPunchedAlready, h)
    THEN /\ installLog' = Append(installLog, [handle |-> h, outcome |-> "noop"])
         /\ UNCHANGED <<duckPunchedAlready, protoRuns, patchCount>>
    ELSE /\ duckPunchedAlready' = TRUE
         /\ IF HasSpecPrototype(h)
            THEN /\ protoRuns' = [protoRuns EXCEPT ![h] = protoRuns[h] + 1]
                 /\ patchCount' = patchCount + 1
                 /\ installLog' = Append(installLog, [handle |-> h, outcome |-> "patched"])
            ELSE \* TypeError while reading jasmine.Spec.prototype.runs
                 /\ installLog' = Append(installLog, [handle |-> h, outcome |-> "threw"])
                 /\ UNCHANGED <<protoRuns, patchCount>>

\* jasmineAsPromised(jasmine), called with an explicit handle
Install(h) ==
    /\ Len(installLog) < MaxInstalls
    /\ InstallBody(h)
    /\ UNCHANGED <<activation, pc, calls, queue, idx, waited, aborted>>
    /\ UNCHANGED stepVars

\* The environments the module-systems dispatch tells apart: CommonJS with a
\* real process object, CommonJS without one, an AMD loader, anything else
EnvKinds == {"node", "browserify", "amd", "script"}
\* The global identifier jasmine: not declared, declared with the value
\* undefined, or bound to host A
GlobalJasmine == {"undeclared", "undefined", "A"}
\* What findNodeJSTarget(require.main, suffix) returns
RegistryTargets == {"undefined", "A"}
\* The branches decided while the script is loaded, before any explicit call
LoadTimeEnvs == {"amd", "script"}

\* Activation without a handle in environment env, global jasmine being g
\* and the module registry search returning reg: either jasmineAsPromised
\* is called with a target, or the activation ends before that.
\* Evaluating the identifier jasmine when it is not declared throws a
\* ReferenceError.
Discover(env, g, reg) ==
    CASE env = "node" ->
            IF ~isDefined(reg)
            THEN [ends |-> "Error", target |-> "undefined"]
            ELSE [ends |-> "call", target |-> reg]
      [] env = "browserify" ->
            IF g = "undeclared"
            THEN [ends |-> "ReferenceError", target |-> "undefined"]
            ELSE IF isDefined(g)
                 THEN [ends |-> "call", target |-> g]
                 ELSE [ends |-> "Error", target |-> "undefined"]
      [] env = "amd" ->
            IF g = "undeclared"
            THEN [ends |-> "ReferenceError", target |-> "undefined"]
            ELSE IF ~isDefined(g)
                 THEN [ends |-> "registered", target |-> "undefined"]
                 ELSE [ends |-> "call", target |-> g]
      [] env = "script" ->
            IF g = "undeclared"
            THEN [ends |-> "ReferenceError", target |-> "undefined"]
            ELSE [ends |-> "call", target |-> g]

\* how an activation that reached jasmineAsPromised(target) ended
CallOutcome(log) ==
    CASE log.outcome = "patched" -> "patched"
      [] log.outcome = "noop" -> "silent"
      [] log.outcome = "threw" -> "TypeError"

\* The record of an activation: its environment, the binding its discovery
\* consulted ("-" for the one it did not look at) and how it ended
Activation(env, g, reg, outcome) ==
    [env |-> env,
     global |-> IF env = "node" THEN "-" ELSE g,
     registry |-> IF env = "node" THEN reg ELSE "-",
     outcome |-> outcome]

\* The module is activated with no handle given
Activate(env, g, reg) ==
    /\ Len(installLog) < MaxInstalls
    /\ env \in LoadTimeEnvs => (installLog = <<>> /\ activation = <<>>)
    /\ LET d == Discover(env, g, reg)
       IN IF d.ends = "call"
          THEN /\ InstallBody(d.target)
               /\ activation' =
                     <<Activation(env, g, reg, CallOutcome(installLog'[Len(installLog')]))>>
          ELSE /\ activation' = <<Activation(env, g, reg, d.ends)>>
               /\ UNCHANGED <<duckPunchedAlready, protoRuns, patchCount, installLog>>
    /\ UNCHANGED <<pc, calls, queue, idx, waited, aborted>>
    /\ UNCHANGED stepVars

\* ------------------------------------------------------- the interceptor

RunsBlock(i, role) ==
    [kind |-> "runs", role |-> role, inv |-> i, timeout |-> <<>>]
WaitsForBlock(i, timeOut) ==
    [kind |-> "waitsFor", role |-> "latch", inv |-> i, timeout |-> timeOut]

\* onReleaseWait: return result = true (the settled value is not received)
onReleaseWait == TRUE

\* (mutant) result is declared once for the module, not once per call
latchCells_shared(i) == Steps

\* The latches that onReleaseWait of invocation i assigns: `result` is a
\* variable of the interceptor call, so each invocation has its own
latchCells(i) == {i}

WriteLatch(i, v) ==
    [j \in Steps |-> IF j \in latchCells(i) THEN v ELSE result[j]]

\* (mutant) no failure callback is registered
thenCallbacks_noFailure ==
    [fulfilled |-> <<onReleaseWait>>, rejected |-> <<>>]

\* (mutant) no success callback is registered
thenCallbacks_noSuccess ==
    [fulfilled |-> <<>>, rejected |-> <<onReleaseWait>>]

\* (mutant) the failure callback resets the latch
thenCallbacks_failureResets ==
    [fulfilled |-> <<onReleaseWait>>, rejected |-> <<FALSE>>]

\* retVal.then( onReleaseWait, onReleaseWait ): for each kind of settlement
\* the value the registered callback assigns to result (<<>>: no callback)
thenCallbacks ==
    [fulfilled |-> <<onReleaseWait>>, rejected |-> <<onReleaseWait>>]

\* result after the callback registered for a settlement of this kind ran
AfterCallback(i, kind) ==
    IF registered[i] /\ thenCallbacks[kind] # <<>>
    THEN WriteLatch(i, thenCallbacks[kind][1])
    ELSE result

\* (mutant) the waitsFor call is missing
interceptor_noWaitsFor(i, expectFn, timeOut) ==
    <<RunsBlock(i, "adapter")>>
        \o (IF isDefined(expectFn) THEN <<RunsBlock(i, "followUp")>> ELSE <<>>)

\* (mutant) runs(expectFn) is called before waitsFor
interceptor_expectFirst(i, expectFn, timeOut) ==
    <<RunsBlock(i, "adapter")>>
        \o (IF isDefined(expectFn) THEN <<RunsBlock(i, "followUp")>> ELSE <<>>)
        \o <<WaitsForBlock(i, timeOut)>>

\* (mutant) timeOut is not handed to waitsFor
interceptor_noTimeOut(i, expectFn, timeOut) ==
    <<RunsBlock(i, "adapter"), WaitsForBlock(i, <<>>)>>
        \o (IF isDefined(expectFn) THEN <<RunsBlock(i, "followUp")>> ELSE <<>>)

\* (mutant) runs(expectFn) is called without the isDefined test
interceptor_alwaysExpect(i, expectFn, timeOut) ==
    <<RunsBlock(i, "adapter"), WaitsForBlock(i, timeOut), RunsBlock(i, "followUp")>>

\* The host calls the interceptor makes, in order, for invocation i:
\* runs(adapter); waitsFor(latch, timeOut); runs(expectFn) if defined.
interceptor(i, expectFn, timeOut) ==
    <<RunsBlock(i, "adapter"), WaitsForBlock(i, timeOut)>>
        \o (IF isDefined(expectFn) THEN <<RunsBlock(i, "followUp")>> ELSE <<>>)

\* The host's own runs(func): one block, further arguments ignored
originalRuns(i) == <<RunsBlock(i, "plain")>>

\* spec.runs(runFn, expectFn, timeOut), called by the body of a spec that
\* makes at most limit such calls
SpecRuns(limit, expectFn, timeOut) ==
    /\ pc = "register"
    /\ Len(calls) < limit
    /\ LET i == Len(calls) + 1
           patched == protoRuns["A"] > 0
       IN /\ calls' = Append(calls, [via |-> IF patched THEN "interceptor" ELSE "original",
                                      expectFn |-> expectFn,
                                      timeOut |-> timeOut])
          /\ queue' = queue \o (IF patched THEN interceptor(i, expectFn, timeOut)
                                           ELSE originalRuns(i))
          \* var result = false
          /\ result' = [result EXCEPT ![i] = FALSE]
    /\ UNCHANGED <<pc, idx, waited, aborted, bodyRet, bodyRuns, registered,
                   deferred, pollOutcome, followRan, followArgs, failures, thrown, lastCheck>>
    /\ UNCHANGED installVars

RunsCall(expectFn, timeOut) == SpecRuns(MaxSteps, expectFn, timeOut)
FairRunsCall(expectFn, timeOut) == SpecRuns(MaxFairSteps, expectFn, timeOut)

\* ---------------------------------------------------------- the host runner

StartRun ==
    /\ pc = "register"
    /\ pc' = "run"
    /\ UNCHANGED <<calls, queue, idx, waited, aborted>>
    /\ UNCHANGED stepVars
    /\ UNCHANGED installVars

Executing == pc = "run" /\ ~aborted /\ idx <= Len(queue)
Cur == queue[idx]

\* (mutant) the else branch does not release the watcher
adapterResult_noRelease(retVal, latch) == latch

\* (mutant) the watcher is released whatever runFn returned
adapterResult_alwaysRelease(retVal, latch) == onReleaseWait

\* what the adapter closure does to the latch after runFn returned retVal
adapterResult(retVal, latch) ==
    IF isPromise(retVal) THEN latch ELSE onReleaseWait

\* The returned value, when it is a deferred computation, is pending;
\* willSettle is the environment's choice of whether it ever settles.
NewDeferred(retVal, willSettle) ==
    IF DeferredComputation(retVal)
    THEN [state |-> IF willSettle THEN "pending" ELSE "never", value |-> ""]
    ELSE NoDeferred

\* The host executes the adapter closure: runFn returns retVal
ExecAdapterReturn(retVal, willSettle) ==
    /\ Executing /\ Cur.kind = "runs" /\ Cur.role = "adapter"
    /\ LET i == Cur.inv
       IN /\ bodyRuns' = [bodyRuns EXCEPT ![i] = @ + 1]
          /\ bodyRet' = [bodyRet EXCEPT ![i] = <<retVal>>]
          /\ registered' = [registered EXCEPT ![i] = isPromise(retVal)]
          /\ result' = WriteLatch(i, adapterResult(retVal, result[i]))
          /\ deferred' = [deferred EXCEPT ![i] = NewDeferred(retVal, willSettle)]
    /\ idx' = idx + 1
    /\ waited' = 0
    /\ UNCHANGED <<pc, calls, queue, aborted, pollOutcome, followRan,
                   followArgs, failures, thrown, lastCheck>>
    /\ UNCHANGED installVars

\* (mutant) the adapter closure catches what runFn throws
adapterOnThrow_caught(latch) == [escapes |-> FALSE, latch |-> latch]

\* (mutant) the adapter closure releases the watcher in a finally clause
adapterOnThrow_finally(latch) == [escapes |-> TRUE, latch |-> onReleaseWait]

\* What the adapter closure does when runFn throws: it has no try, so the
\* exception leaves the closure and neither branch of the if is reached
adapterOnThrow(latch) == [escapes |-> TRUE, latch |-> latch]

\* The host executes the adapter closure and runFn throws: an exception that
\* leaves the closure is reported to the spec by the host's block
ExecAdapterThrow ==
    /\ Executing /\ Cur.kind = "runs" /\ Cur.role = "adapter"
    /\ LET i == Cur.inv
           out == adapterOnThrow(result[i])
       IN /\ bodyRuns' = [bodyRuns EXCEPT ![i] = @ + 1]
          /\ thrown' = thrown \cup {[inv |-> i, by |-> "runFn"]}
          /\ result' = [result EXCEPT ![i] = out.latch]
          /\ failures' = IF out.escapes
                         THEN failures \cup {[inv |-> i, kind |-> "exception"]}
                         ELSE failures
    /\ idx' = idx + 1
    /\ waited' = 0
    /\ UNCHANGED <<pc, calls, queue, aborted, bodyRet, registered,
                   deferred, pollOutcome, followRan, followArgs, lastCheck>>
    /\ UNCHANGED installVars

\* The host executes a block of its own runs(): the body is called, its
\* return value is dropped, an exception is reported to the spec
ExecPlain(throws) ==
    /\ Executing /\ Cur.kind = "runs" /\ Cur.role = "plain"
    /\ bodyRuns' = [bodyRuns EXCEPT ![Cur.inv] = @ + 1]
    /\ failures' = IF throws
                   THEN failures \cup {[inv |-> Cur.inv, kind |-> "exception"]}
                   ELSE failures
    /\ thrown' = IF throws
                 THEN thrown \cup {[inv |-> Cur.inv, by |-> "runFn"]}
                 ELSE thrown
    /\ idx' = idx + 1
    /\ waited' = 0
    /\ UNCHANGED <<pc, calls, queue, aborted, result, bodyRet, registered,
                   deferred, pollOutcome, followRan, followArgs, lastCheck>>
    /\ UNCHANGED installVars

\* The host executes the block of runs(expectFn): func.apply(spec), so
\* expectFn is called with an empty argument list
ExecFollowUp(throws) ==
    /\ Executing /\ Cur.kind = "runs" /\ Cur.role = "followUp"
    /\ followRan' = [followRan EXCEPT ![Cur.inv] = TRUE]
    /\ followArgs' = [followArgs EXCEPT ![Cur.inv] = <<>>]
    /\ failures' = IF throws
                   THEN failures \cup {[inv |-> Cur.inv, kind |-> "exception"]}
                   ELSE failures
    /\ thrown' = IF throws
                 THEN thrown \cup {[inv |-> Cur.inv, by |-> "expectFn"]}
                 ELSE thrown
    /\ idx' = idx + 1
    /\ waited' = 0
    /\ UNCHANGED <<pc, calls, queue, aborted, result, bodyRet, bodyRuns,
                   registered, deferred, pollOutcome, lastCheck>>
    /\ UNCHANGED installVars

Settled(i) == deferred[i].state \in {"fulfilled", "rejected"}

\* the latch-check closure handed to waitsFor: return result
latchFunction(i) == result[i]

Check(i) == [inv |-> i, first |-> (waited = 0), settled |-> Settled(i),
             ret |-> latchFunction(i)]

HostTimeout(b) ==
    IF b.timeout = <<>> THEN DefaultTimeoutTicks ELSE b.timeout[1]

\* waitsFor block: the latch function returned true
PollRelease ==
    /\ Executing /\ Cur.kind = "waitsFor"
    /\ latchFunction(Cur.inv)
    /\ lastCheck' = <<Check(Cur.inv)>>
    /\ pollOutcome' = [pollOutcome EXCEPT ![Cur.inv] = "released"]
    /\ idx' = idx + 1
    /\ waited' = 0
    /\ UNCHANGED <<pc, calls, queue, aborted, result, bodyRet, bodyRuns,
                   registered, deferred, followRan, followArgs, failures, thrown>>
    /\ UNCHANGED installVars

\* waitsFor block: the latch function returned false, check again a tick later
PollRetry ==
    /\ Executing /\ Cur.kind = "waitsFor"
    /\ ~latchFunction(Cur.inv)
    /\ waited < HostTimeout(Cur)
    /\ lastCheck' = <<Check(Cur.inv)>>
    /\ waited' = waited + 1
    /\ UNCHANGED <<pc, calls, queue, idx, aborted, result, bodyRet, bodyRuns,
                   registered, deferred, pollOutcome, followRan, followArgs,
                   failures, thrown>>
    /\ UNCHANGED installVars

\* waitsFor block: false and the time is up; the spec fails, the queue aborts
PollTimeout ==
    /\ Executing /\ Cur.kind = "waitsFor"
    /\ ~latchFunction(Cur.inv)
    /\ waited >= HostTimeout(Cur)
    /\ lastCheck' = <<Check(Cur.inv)>>
    /\ pollOutcome' = [pollOutcome EXCEPT ![Cur.inv] = "timeout"]
    /\ failures' = failures \cup {[inv |-> Cur.inv, kind |-> "timeout"]}
    /\ aborted' = TRUE
    /\ UNCHANGED <<pc, calls, queue, idx, waited, result, bodyRet, bodyRuns,
                   registered, deferred, followRan, followArgs, thrown>>
    /\ UNCHANGED installVars

\* The deferred computation of invocation i settles and notifies the
\* callbacks registered on it (both are onReleaseWait)
Settle(i, state, value) ==
    /\ pc = "run"
    /\ deferred[i].state = "pending"
    /\ deferred' = [deferred EXCEPT ![i] = [state |-> state, value |-> value]]
    /\ result' = AfterCallback(i, state)
    /\ UNCHANGED <<pc, calls, queue, idx, waited, aborted, bodyRet, bodyRuns,
                   registered, pollOutcome, followRan, followArgs, failures, thrown,
                   lastCheck>>
    /\ UNCHANGED installVars

Fulfil(i) == \E v \in Values : Settle(i, "fulfilled", v)
Reject(i) == \E r \in Reasons : Settle(i, "rejected", r)

\* A deferred that does not keep the contract calls a registered callback
\* once more after it settled: the same one again, or the other one
ExtraCallback(i, kind) ==
    /\ pc = "run"
    /\ registered[i]
    /\ Settled(i)
    /\ result' = AfterCallback(i, kind)
    /\ UNCHANGED <<pc, calls, queue, idx, waited, aborted, bodyRet, bodyRuns,
                   registered, deferred, pollOutcome, followRan, followArgs,
                   failures, thrown, lastCheck>>
    /\ UNCHANGED installVars

\* The queue is exhausted or aborted: the spec finishes
Finish ==
    /\ pc = "run"
    /\ aborted \/ idx > Len(queue)
    /\ pc' = "done"
    /\ UNCHANGED <<calls, queue, idx, waited, aborted>>
    /\ UNCHANGED stepVars
    /\ UNCHANGED installVars

\* one step of the host runner on a spec whose bodies return values of V
HostStepOver(V) ==
    \/ \E v \in V, w \in BOOLEAN : ExecAdapterReturn(v, w)
    \/ ExecAdapterThrow
    \/ \E t \in BOOLEAN : ExecPlain(t)
    \/ \E t \in BOOLEAN : ExecFollowUp(t)
    \/ PollRelease
    \/ PollRetry
    \/ PollTimeout
    \/ Finish

HostStep == HostStepOver(ReturnValues)

SettlementKinds == {"fulfilled", "rejected"}

Next ==
    \/ \E e \in ExpectFns, t \in TimeOuts : RunsCall(e, t)
    \/ StartRun
    \/ HostStep
    \/ \E i \in Steps : Fulfil(i)
    \/ \E i \in Steps : Reject(i)
    \/ \E i \in Steps, k \in SettlementKinds : ExtraCallback(i, k)

\* One spec, registered and run to its end
Spec == Init /\ [][Next]_vars

\* Install calls with any handles, interleaved with the runs() calls of a
\* spec body
InstallNext ==
    \/ \E h \in Handles : Install(h)
    \/ \E env \in EnvKinds, g \in GlobalJasmine, reg \in RegistryTargets :
          Activate(env, g, reg)
    \/ \E e \in ExpectFns, t \in TimeOuts : RunsCall(e, t)

InstallSpec == InstallInit /\ [][InstallNext]_vars

\* The host runner keeps executing blocks and polling; neither the spec body
\* nor the deferred computations are obliged to act.
FairNext ==
    \/ \E e \in ExpectFns, t \in TimeOuts : FairRunsCall(e, t)
    \/ StartRun
    \/ HostStep
    \/ \E i \in Steps : Fulfil(i)
    \/ \E i \in Steps : Reject(i)
    \/ \E i \in Steps, k \in SettlementKinds : ExtraCallback(i, k)

FairSpec == Init /\ [][FairNext]_vars /\ WF_vars(HostStep)

\* The detector applied to every kind of value: a spec whose step bodies
\* return any value of AllValues
DetectNext ==
    \/ \E e \in ExpectFns, t \in TimeOuts : FairRunsCall(e, t)
    \/ StartRun
    \/ HostStepOver(AllValues)
    \/ \E i \in Steps : Fulfil(i)
    \/ \E i \in Steps : Reject(i)
    \/ \E i \in Steps, k \in SettlementKinds : ExtraCallback(i, k)

DetectSpec == Init /\ [][DetectNext]_vars

\* ------------------------------------------------------------ vocabulary

Registered(i) == i \in 1..Len(calls)
Intercepted(i) == Registered(i) /\ calls[i].via = "interceptor"
Returned(i) == bodyRet[i] # <<>>
\* the body of invocation i returned a deferred computation
ReturnedDeferred(i) ==
    Intercepted(i) /\ Returned(i) /\ DeferredComputation(bodyRet[i][1])
\* the body of invocation i returned something that is not one
ReturnedPlainValue(i) ==
    Intercepted(i) /\ Returned(i) /\ ~DeferredComputation(bodyRet[i][1])
Checked(c) == lastCheck # <<>> /\ lastCheck[1] = c
Armed(i) == Executing /\ Cur.kind = "waitsFor" /\ Cur.inv = i
BlocksOf(i, kind, role) ==
    {k \in 1..Len(queue) :
        queue[k].inv = i /\ queue[k].kind = kind /\ queue[k].role = role}
TimedOut(i) ==
    pollOutcome[i] = "timeout" /\ [inv |-> i, kind |-> "timeout"] \in failures

\* ---------------------------------------------------------------- claims

C3_RejectionFailsTest ==
    \A i \in Steps :
        (pc = "done" /\ ReturnedDeferred(i) /\ deferred[i].state = "rejected"
            /\ pollOutcome[i] = "released")
            => (\E f \in failures : f.inv = i)

\* C4: a followUp that ran after its step's deferred computation was
\* fulfilled with v was called with v as its argument.
C4_FollowUpReceivesValue ==
    \A i \in Steps :
        (ReturnedDeferred(i) /\ deferred[i].state = "fulfilled" /\ followRan[i])
            => (followArgs[i] = <<deferred[i].value>>)

\* C5: a followUp has run only if the latch of its invocation is true and
\* the poll of its invocation ended by release, not by timeout.
C5_FollowUpAfterRelease ==
    \A i \in Steps :
        followRan[i] => (result[i] /\ pollOutcome[i] = "released" /\ ~TimedOut(i))

\* a followUp has run on a step whose deferred computation was fulfilled
C5_Witness ==
    \E i \in Steps :
        ReturnedDeferred(i) /\ deferred[i].state = "fulfilled" /\ followRan[i]

\* C6: whatever install calls were made, Spec.prototype.runs was assigned at
\* most once, every host's runs is the original or one interceptor around the
\* original, and a call served by the interceptor queued exactly one adapter
\* block and one waitsFor block.
C6_PatchedAtMostOnce ==
    /\ patchCount <= 1
    /\ \A h \in Hosts : protoRuns[h] <= 1
    /\ \A i \in Steps :
        Intercepted(i) =>
            /\ Cardinality(BlocksOf(i, "runs", "adapter")) = 1
            /\ Cardinality(BlocksOf(i, "waitsFor", "latch")) = 1

\* two install calls on the same host, then a runs() call on it
C6_Witness ==
    /\ Len(installLog) >= 2
    /\ installLog[1].handle = "A" /\ installLog[2].handle = "A"
    /\ Intercepted(1)

\* C7: on a step whose body returned a value that is not a deferred
\* computation, the first evaluation of the poll condition returns true, and
\* the poll does not end by timeout.
C7_PlainValueReleasesAtOnce ==
    /\ \A c \in {lastCheck[k] : k \in 1..Len(lastCheck)} :
        (ReturnedPlainValue(c.inv) /\ c.first) => c.ret
    /\ \A i \in Steps : ReturnedPlainValue(i) => pollOutcome[i] # "timeout"

\* the poll of a step whose body returned undefined was released at its
\* first check
C7_Witness ==
    \E i \in Steps :
        /\ Intercepted(i) /\ bodyRet[i] = <<Undefined>>
        /\ Checked([inv |-> i, first |-> TRUE, settled |-> FALSE, ret |-> TRUE])
        /\ pollOutcome[i] = "released"

NeverSettles(i) == ReturnedDeferred(i) /\ deferred[i].state = "never"

ForwardedTimeout(timeOut) ==
    IF timeOut = <<>> THEN DefaultTimeoutTicks ELSE timeOut[1]

\* C9: the waitsFor block of an intercepted call carries the call's third
\* argument unchanged (an omitted argument stays omitted), and a poll that
\* timed out waited for that argument, or for the host default if omitted.
C9_TimeOutForwarded ==
    \A i \in Steps :
        Intercepted(i) =>
            /\ \A k \in BlocksOf(i, "waitsFor", "latch") :
                   queue[k].timeout = calls[i].timeOut
            /\ (Armed(i) /\ pollOutcome[i] = "timeout")
                   => waited = ForwardedTimeout(calls[i].timeOut)

\* one poll with an explicit timeOut timed out
C9_Witness ==
    \E i \in Steps :
        /\ Intercepted(i) /\ calls[i].timeOut = <<1>>
        /\ pollOutcome[i] = "timeout" /\ waited = 1

InstallStep == Len(installLog') = Len(installLog) + 1
LastInstall == installLog[Len(installLog)]

\* C10: an install call made while duckPunchedAlready is true, or with an
\* undefined handle, changes neither the flag nor any host's runs and throws
\* nothing; and a host handle installed after only such calls is patched.
C10_NoOpInstall ==
    [][InstallStep =>
        /\ (duckPunchedAlready \/ LastInstall'.handle = "undefined")
              => /\ duckPunchedAlready' = duckPunchedAlready
                 /\ protoRuns' = protoRuns
                 /\ patchCount' = patchCount
                 /\ LastInstall'.outcome = "noop"
        /\ (LastInstall'.handle \in Hosts
              /\ \A k \in 1..Len(installLog) : installLog[k].handle = "undefined")
              => /\ LastInstall'.outcome = "patched"
                 /\ protoRuns'[LastInstall'.handle] = 1
      ]_vars

\* an install with an undefined handle, then an install that patched host A
C10_Witness ==
    /\ Len(installLog) = 2
    /\ installLog[1] = [handle |-> "undefined", outcome |-> "noop"]
    /\ installLog[2] = [handle |-> "A", outcome |-> "patched"]
    /\ protoRuns["A"] = 1


Threw(i, by) == [inv |-> i, by |-> by] \in thrown
ExceptionReported(i) == [inv |-> i, kind |-> "exception"] \in failures

C12_ThrowReachesHost ==
    \A t \in thrown : Intercepted(t.inv) => ExceptionReported(t.inv)

\* a step body threw inside the adapter closure and the host reported it
C12_Witness ==
    \E i \in Steps :
        Intercepted(i) /\ Threw(i, "runFn") /\ ExceptionReported(i)

SettlesNow(i) ==
    deferred[i].state = "pending" /\ deferred'[i].state \in SettlementKinds

C15_NoMissedWakeUp ==
    /\ [](\A i \in Steps : (ReturnedDeferred(i) /\ Settled(i)) => result[i])
    /\ \A i \in Steps :
          (Armed(i) /\ ReturnedDeferred(i) /\ Settled(i))
              ~> (pollOutcome[i] = "released")
    /\ \A i \in Steps :
          (Armed(i) /\ ReturnedDeferred(i) /\ Settled(i)
              /\ isDefined(calls[i].expectFn))
              ~> followRan[i]

\* a deferred computation settled before the first check of its poll, the
\* poll was released at that check and the followUp ran
C15_Witness ==
    \E i \in Steps :
        /\ ReturnedDeferred(i) /\ Settled(i)
        /\ Checked([inv |-> i, first |-> TRUE, settled |-> TRUE, ret |-> TRUE])
        /\ followRan[i]

HostCallsOf(i) == SelectSeq(queue, LAMBDA b : b.inv = i)

\* C16: the host calls made for an intercepted invocation are, in this order,
\* runs(adapter), one waitsFor(latch), and then runs(followUp) exactly when a
\* followUp was given.
C16_HostCallOrder ==
    \A i \in Steps :
        Intercepted(i) =>
            LET cs == HostCallsOf(i)
            IN /\ Len(cs) = (IF isDefined(calls[i].expectFn) THEN 3 ELSE 2)
               /\ cs[1].kind = "runs" /\ cs[1].role = "adapter"
               /\ cs[2].kind = "waitsFor" /\ cs[2].role = "latch"
               /\ Len(cs) = 3 => (cs[3].kind = "runs" /\ cs[3].role = "followUp")

\* one invocation with a followUp and one without
C16_Witness ==
    /\ Intercepted(1) /\ Intercepted(2)
    /\ isDefined(calls[1].expectFn) /\ ~isDefined(calls[2].expectFn)
    /\ Len(queue) = 5

\* C17: the latch of an invocation is false when the interceptor call
\* returns, and no step takes a true latch back to false, whichever
\* callbacks fire and however often (both of them, or one more than once).
C17_LatchMonotonic ==
    [][\A i \in Steps :
          /\ (Len(calls') = i /\ Len(calls) = i - 1) => ~result'[i]
          /\ (Registered(i) /\ result[i]) => result'[i]
      ]_vars

\* the latch is true on a settled deferred computation while its poll is
\* still to make a check: any callback that fires again finds it true
C17_Witness ==
    \E i \in Steps :
        ReturnedDeferred(i) /\ Settled(i) /\ result[i] /\ Armed(i) /\ waited > 0

\* C19: once the step body of an intercepted invocation has thrown inside
\* the adapter closure, the latch of that invocation is false in every later
\* state and its poll is never released: it can end only by timeout.
C19_ThrowLeavesLatchFalse ==
    \A i \in Steps :
        (Intercepted(i) /\ Threw(i, "runFn")) =>
            (~result[i] /\ pollOutcome[i] # "released")

\* the poll of a step whose body threw ended by timeout
C19_Witness ==
    \E i \in Steps :
        Intercepted(i) /\ Threw(i, "runFn") /\ TimedOut(i)

\* C20: a step changes the latch of at most one invocation, and a step in
\* which the deferred computation of invocation i settles leaves the latch
\* of every other invocation as it was.
C20_LatchPerInvocation ==
    [][/\ Cardinality({j \in Steps : result'[j] # result[j]}) <= 1
       /\ \A i \in Steps :
             SettlesNow(i) =>
                 \A j \in Steps \ {i} : result'[j] = result[j]
      ]_vars

\* two invocations that returned deferred computations: the first settled
\* and has its latch true, the second is polling with its latch false
C20_Witness ==
    /\ ReturnedDeferred(1) /\ ReturnedDeferred(2)
    /\ Settled(1) /\ ~Settled(2)
    /\ result[1] /\ ~result[2]
    /\ Armed(2)

\* an activation that found no running host: the registry search returned
\* nothing, or the global jasmine is not bound to a host
NoHostDiscoverable(a) ==
    \/ a.env = "node" /\ a.registry = "undefined"
    \/ a.env \in {"browserify", "script"} /\ a.global # "A"

\* any exception counts as an error here, the ReferenceError of an
\* undeclared global included
EndsWithError(a) == a.outcome \in {"Error", "ReferenceError", "TypeError"}

\* C13: an activation made without a handle that found no running host
\* ended with an error, in the module-registry environment and in the
\* global-binding environments alike.
C13_DiscoveryFailsLoudly ==
    \A k \in 1..Len(activation) :
        NoHostDiscoverable(activation[k]) => EndsWithError(activation[k])

\* C18: whenever duckPunchedAlready is true, the runs of some host has been
\* replaced by the interceptor.
C18_FlagImpliesPatched ==
    duckPunchedAlready => \E h \in Hosts : protoRuns[h] > 0

====
